---- MODULE Spec2Model ----
(***************************************************************************)
(* DataService (app/services/data_service.py): the JSON document loader    *)
(* with its in-memory cache, called by concurrent threads of one process.  *)
(* One action per statement of _load_json_file, so that every interleaving *)
(* of concurrent loads, clear_cache() and changes of the data files is a   *)
(* behaviour of the model.                                                 *)
(***************************************************************************)
EXTENDS Integers, Sequences, FiniteSets, TLC

(***************************************************************************)
(* Bounds of the model.                                                    *)
(***************************************************************************)
NumThreads == 2
MaxCalls == 3
MaxFsChanges == 1
MaxClears == 1
MaxTime == 2

Threads == 1..NumThreads

\* The data files the service names (get_profile_data, get_projects_data).
Files == {"page.json", "projects.json"}

(***************************************************************************)
(* Python values.  json.load maps JSON null to None, which is also the     *)
(* absence marker _load_json_file returns.                                 *)
(***************************************************************************)
PyNone == [type |-> "NoneType"]
PyInt(n) == [type |-> "int", num |-> n]
PyStr(s) == [type |-> "str", str |-> s]
PyBool(b) == [type |-> "bool", bool |-> b]
PyDict(d) == [type |-> "dict", fields |-> d]
PyList(xs) == [type |-> "list", items |-> xs]

\* Markers of the model, none of them a value json.load can produce.
NotCached == [type |-> "<key not in dict>"]
NoReturn == [type |-> "<call in progress>"]
RaisedKeyError == [type |-> "<KeyError raised>"]
JSONDecodeError == [type |-> "<JSONDecodeError raised>"]
UnicodeDecodeError == [type |-> "<UnicodeDecodeError raised>"]

(***************************************************************************)
(* The texts a data file may hold, and json.load on each of them.          *)
(***************************************************************************)
ValidTexts ==
    { "null", "7", "\"cv\"", "true", "{\"name\": \"A\"}", "[{\"id\": \"p1\"}]" }
MalformedTexts == { "{\"name\": " }
Texts == ValidTexts \cup MalformedTexts
\* Further texts, met by the routes only: an array whose element is not an
\* object, and a file whose bytes are not UTF-8 (its read raises with
\* encoding='utf-8').
ArrayOfNumberText == "[7]"
UndecodableText == "<bytes 0xFF 0xFE>"

\* The records of a projects document.
RecAI ==
    PyDict([id |-> PyStr("p1"), category |-> PyStr("AI"),
            featured |-> PyBool(TRUE)])
RecAiLower ==
    PyDict([id |-> PyStr("p2"), category |-> PyStr("ai"),
            featured |-> PyBool(FALSE)])
RecWeb == PyDict([id |-> PyStr("P1"), category |-> PyStr("web")])
RecDupId == PyDict([id |-> PyStr("p1"), featured |-> PyInt(1)])
RecEmptyCategory ==
    PyDict([id |-> PyStr("p3"), category |-> PyStr(""), featured |-> PyNone])
RecOddTypes == PyDict([category |-> PyInt(5), featured |-> PyStr("yes")])

\* An array of n records, the five records with a string category in turn.
Cycle == <<RecAI, RecAiLower, RecWeb, RecDupId, RecEmptyCategory>>
LongDoc(n) == [i \in 1..n |-> Cycle[((i - 1) % Len(Cycle)) + 1]]

\* The default of the `limit` parameter (data_service.py line 62 and
\* data_routes.py line 72).
DefaultLimit == 50

\* Two further documents of records: one of two records, and one longer by
\* one record than the default limit.
TwoRecordsText == "[<p1 AI featured>, <p2 ai>]"
LongArrayText == "[<DefaultLimit + 1 records>]"

json_load(text) ==
    CASE text = "null" -> PyNone
      [] text = "7" -> PyInt(7)
      [] text = "\"cv\"" -> PyStr("cv")
      [] text = "true" -> PyBool(TRUE)
      [] text = "{\"name\": \"A\"}" -> PyDict([name |-> PyStr("A")])
      [] text = "[{\"id\": \"p1\"}]" -> PyList(<<PyDict([id |-> PyStr("p1")])>>)
      [] text = ArrayOfNumberText -> PyList(<<PyInt(7)>>)
      [] text = TwoRecordsText -> PyList(<<RecAI, RecAiLower>>)
      [] text = LongArrayText -> PyList(LongDoc(DefaultLimit + 1))
      [] text = UndecodableText -> UnicodeDecodeError
      [] OTHER -> JSONDecodeError

JsonValues == { json_load(t) : t \in ValidTexts }

\* A file of the data directory: missing, or present with a text.
MissingFile == [exists |-> FALSE]
FileWith(text) == [exists |-> TRUE, text |-> text]
FileStates == {MissingFile} \cup { FileWith(t) : t \in Texts }
IsMalformed(file) == file.exists /\ json_load(file.text) = JSONDecodeError

VARIABLES
    fs,             \* the data directory: file name -> file state
    cache,          \* DataService._cache: file name -> value, or NotCached
    pc,             \* per thread: the statement of _load_json_file it is at
    filename,       \* per thread: the argument of its call
    hit,            \* per thread: the outcome of `filename in self._cache`
    data,           \* per thread: the local `data`
    ret,            \* per thread: what its call returned (or raised)
    cache_enabled,  \* app_settings.cache_enabled
    cache_ttl,      \* app_settings.cache_ttl, in seconds
    cache_max_size, \* app_settings.cache_max_size
    now,            \* seconds elapsed since the service was constructed
    ncalls,         \* calls of _load_json_file made so far
    nchanges,       \* changes of the data directory so far
    nclears,        \* calls of clear_cache so far
    okVal,          \* history, per file: what the first load returned that
                    \* read the file and returned, the filename in the
                    \* cache, since the last clear
    afterOk,        \* history, per thread: its call began after such a load
                    \* returned, and no clear has run since
    pending,        \* history: the files cached when clear_cache last ran and
                    \* not requested since
    fileAbsent,     \* history, per thread: the file of its call has not
                    \* existed at any moment since the call began
    fileMalformed,  \* history, per thread: the file of its call has held
                    \* invalid JSON at every moment since the call began
    afterFail,      \* history, per thread: its call began after a load of
                    \* the same filename failed and returned None
    fileValid,      \* history, per thread: the file of its call has held
                    \* the same valid JSON at every moment since the call
                    \* began
    qdata,          \* a query: what its load (_load_json_file or
                    \* load_json_data) returned
    qcall,          \* a query: the operation called and its arguments
    qret,           \* a query: the locals and the outcome of the call
    reads,          \* history, per file: the times a route has opened it
    api_keys,       \* app_settings.groq_api_key, openai_api_key and
                    \* anthropic_api_key
    providers,      \* AIService.providers, once the service is constructed
    stats_pc,       \* get_data_stats: the statement its caller is at
    stats,          \* get_data_stats: the local `stats`, with the locals
                    \* projects, experience and certificates beside it
    stats_start     \* history: the files cached when get_data_stats began

settings == <<cache_enabled, cache_ttl, cache_max_size>>
history == <<okVal, afterOk, pending, fileAbsent, fileMalformed, afterFail, fileValid>>
query == <<qdata, qcall, qret>>
ai == <<api_keys, providers>>
stat == <<stats_pc, stats, stats_start>>
others == <<reads, ai, stat>>
counters == <<ncalls, nchanges, nclears>>
vars ==
    <<fs, cache, pc, filename, hit, data, ret, settings, now, counters, history,
      query, others>>

IsCached(f) == cache[f] # NotCached
CachedFiles == { f \in DOMAIN cache : IsCached(f) }

\* __init__ (line 21): the cache starts empty.
InitServiceOver(F) ==
    /\ cache = [f \in F |-> NotCached]
    /\ pc = [p \in Threads |-> "idle"]
    /\ filename = [p \in Threads |-> "page.json"]
    /\ hit = [p \in Threads |-> FALSE]
    /\ data = [p \in Threads |-> NoReturn]
    /\ ret = [p \in Threads |-> NoReturn]
    /\ now = 0
    /\ ncalls = 0
    /\ nchanges = 0
    /\ nclears = 0
    /\ okVal = [f \in F |-> NotCached]
    /\ afterOk = [p \in Threads |-> FALSE]
    /\ pending = {}
    /\ fileAbsent = [p \in Threads |-> FALSE]
    /\ fileMalformed = [p \in Threads |-> FALSE]
    /\ afterFail = [p \in Threads |-> FALSE]
    /\ fileValid = [p \in Threads |-> FALSE]

InitService == InitServiceOver(Files)

\* No query of the Query Layer has been made.
NoCall == [op |-> "<no call>"]
NoQuery ==
    /\ qdata = PyNone
    /\ qcall = NoCall
    /\ qret = NoReturn

\* No route has opened a file and get_data_stats is not running.
NoRequest ==
    /\ reads = [f \in Files |-> 0]
    /\ stats_pc = "idle"
    /\ stats = NoReturn
    /\ stats_start = {}

\* The defaults of the provider keys (settings.py lines 29-31), and the
\* module ai_service not imported.
NotConstructed == [type |-> "<not constructed>"]
NoKeys == [groq |-> "", openai |-> "", anthropic |-> ""]
NoAI ==
    /\ api_keys = NoKeys
    /\ providers = NotConstructed

\* The defaults of AppSettings (settings.py lines 61, 64, 65).
DefaultSettings ==
    /\ cache_enabled = TRUE
    /\ cache_ttl = 300
    /\ cache_max_size = 1000

\* The service under the default settings, over any data directory.
Init ==
    /\ InitService
    /\ DefaultSettings
    /\ NoQuery
    /\ NoRequest
    /\ NoAI
    /\ fs \in [Files -> FileStates]

HoldsValidJson(f) == fs[f].exists /\ json_load(fs[f].text) \in JsonValues

\* Thread q's last call was a load of f that missed the cache and returned
\* None because the file was missing (line 33) or held invalid JSON (line 43).
FailedLoad(q, f) ==
    /\ pc[q] = "done" /\ filename[q] = f
    /\ ~hit[q] /\ ret[q] = PyNone
    /\ (fileAbsent[q] \/ fileMalformed[q])

\* Lines 23-25: the call, and the test `filename in self._cache`.
LoadCall(p, f) ==
    /\ pc[p] \in {"idle", "done"}
    /\ ncalls < MaxCalls
    /\ ncalls' = ncalls + 1
    /\ filename' = [filename EXCEPT ![p] = f]
    /\ hit' = [hit EXCEPT ![p] = IsCached(f)]
    /\ pc' = [pc EXCEPT ![p] = IF IsCached(f) THEN "L26" ELSE "L31"]
    /\ data' = [data EXCEPT ![p] = NoReturn]
    /\ ret' = [ret EXCEPT ![p] = NoReturn]
    /\ afterOk' = [afterOk EXCEPT ![p] = (okVal[f] # NotCached)]
    /\ pending' = pending \ {f}
    /\ fileAbsent' = [fileAbsent EXCEPT ![p] = ~fs[f].exists]
    /\ fileMalformed' = [fileMalformed EXCEPT ![p] = IsMalformed(fs[f])]
    /\ afterFail' = [afterFail EXCEPT ![p] = \E q \in Threads : FailedLoad(q, f)]
    /\ fileValid' = [fileValid EXCEPT ![p] = HoldsValidJson(f)]
    /\ UNCHANGED <<others, query, fs, cache, settings, now, nchanges, nclears, okVal>>

\* Line 26: return self._cache[filename]; a KeyError when the key has gone.
ReturnCached(p) ==
    /\ pc[p] = "L26"
    /\ ret' = [ret EXCEPT ![p] = IF IsCached(filename[p])
                                  THEN cache[filename[p]]
                                  ELSE RaisedKeyError]
    /\ pc' = [pc EXCEPT ![p] = "done"]
    /\ UNCHANGED <<others, query, fs, cache, filename, hit, data, settings, now, counters, history>>

\* CheckExists with `return {}` for a missing file instead of None.
CheckExists_ReturnsEmpty(p) ==
    /\ pc[p] = "L31"
    /\ IF fs[filename[p]].exists
       THEN /\ pc' = [pc EXCEPT ![p] = "L35"]
            /\ ret' = ret
       ELSE /\ pc' = [pc EXCEPT ![p] = "done"]
            /\ ret' = [ret EXCEPT ![p] = PyDict(<<>>)]
    /\ UNCHANGED <<others, query, fs, cache, filename, hit, data, settings, now, counters, history>>

\* Lines 31-33: file_path.exists(); return None when it does not.
CheckExists(p) ==
    /\ pc[p] = "L31"
    /\ IF fs[filename[p]].exists
       THEN /\ pc' = [pc EXCEPT ![p] = "L35"]
            /\ ret' = ret
       ELSE /\ pc' = [pc EXCEPT ![p] = "done"]
            /\ ret' = [ret EXCEPT ![p] = PyNone]
    /\ UNCHANGED <<others, query, fs, cache, filename, hit, data, settings, now, counters, history>>

\* ReadAndParse with the failure memoized: the handlers store None under the
\* filename before they return it.
ReadAndParse_CacheFailure(p) ==
    /\ pc[p] = "L35"
    /\ LET file == fs[filename[p]]
           parsed == IF file.exists THEN json_load(file.text) ELSE JSONDecodeError
       IN IF file.exists /\ parsed # JSONDecodeError
          THEN /\ data' = [data EXCEPT ![p] = parsed]
               /\ pc' = [pc EXCEPT ![p] = "L37"]
               /\ ret' = ret
               /\ cache' = cache
          ELSE /\ data' = data
               /\ pc' = [pc EXCEPT ![p] = "done"]
               /\ ret' = [ret EXCEPT ![p] = PyNone]
               /\ cache' = [cache EXCEPT ![filename[p]] = PyNone]
    /\ UNCHANGED <<others, query, fs, filename, hit, settings, now, counters, history>>

\* ReadAndParse with the handler of line 41 returning an error string for
\* invalid JSON instead of None.
ReadAndParse_ReportsParseError(p) ==
    /\ pc[p] = "L35"
    /\ LET file == fs[filename[p]]
           parsed == IF file.exists THEN json_load(file.text) ELSE JSONDecodeError
       IN IF file.exists /\ parsed # JSONDecodeError
          THEN /\ data' = [data EXCEPT ![p] = parsed]
               /\ pc' = [pc EXCEPT ![p] = "L37"]
               /\ ret' = ret
          ELSE /\ data' = data
               /\ pc' = [pc EXCEPT ![p] = "done"]
               /\ ret' = [ret EXCEPT ![p] = IF file.exists
                                             THEN PyStr("invalid JSON")
                                             ELSE PyNone]
    /\ UNCHANGED <<others, query, fs, cache, filename, hit, settings, now, counters, history>>

\* ReadAndParse with an isinstance guard: a parsed value that is neither a
\* list nor a dict is returned as None and not cached.
ReadAndParse_OnlyContainers(p) ==
    /\ pc[p] = "L35"
    /\ LET file == fs[filename[p]]
           parsed == IF file.exists THEN json_load(file.text) ELSE JSONDecodeError
       IN IF file.exists /\ parsed # JSONDecodeError
             /\ parsed.type \in {"list", "dict"}
          THEN /\ data' = [data EXCEPT ![p] = parsed]
               /\ pc' = [pc EXCEPT ![p] = "L37"]
               /\ ret' = ret
          ELSE /\ data' = data
               /\ pc' = [pc EXCEPT ![p] = "done"]
               /\ ret' = [ret EXCEPT ![p] = PyNone]
    /\ UNCHANGED <<others, query, fs, cache, filename, hit, settings, now, counters, history>>

\* Lines 35-36 and the handlers of lines 41-46: open and json.load.  A file
\* removed since line 31 makes open raise, a malformed text makes json.load
\* raise; both handlers return None.
ReadAndParse(p) ==
    /\ pc[p] = "L35"
    /\ LET file == fs[filename[p]]
           parsed == IF file.exists THEN json_load(file.text) ELSE JSONDecodeError
       IN IF file.exists /\ parsed # JSONDecodeError
          THEN /\ data' = [data EXCEPT ![p] = parsed]
               /\ pc' = [pc EXCEPT ![p] = "L37"]
               /\ ret' = ret
          ELSE /\ data' = data
               /\ pc' = [pc EXCEPT ![p] = "done"]
               /\ ret' = [ret EXCEPT ![p] = PyNone]
    /\ UNCHANGED <<others, query, fs, cache, filename, hit, settings, now, counters, history>>

\* StoreInCache honouring cache_max_size: the other entries are dropped when
\* the cache is full.
StoreInCache_Evicting(p) ==
    /\ pc[p] = "L37"
    /\ cache' = [f \in Files |->
                    IF f = filename[p] THEN data[p]
                    ELSE IF Cardinality(CachedFiles \ {filename[p]}) >= cache_max_size
                         THEN NotCached
                         ELSE cache[f]]
    /\ pc' = [pc EXCEPT ![p] = "L39"]
    /\ UNCHANGED <<others, query, fs, filename, hit, data, ret, settings, now, counters, history>>

\* StoreInCache with a fixed key in place of `filename`.
StoreInCache_WrongKey(p) ==
    /\ pc[p] = "L37"
    /\ cache' = [cache EXCEPT !["page.json"] = data[p]]
    /\ pc' = [pc EXCEPT ![p] = "L39"]
    /\ UNCHANGED <<others, query, fs, filename, hit, data, ret, settings, now, counters, history>>

\* Line 37: self._cache[filename] = data.
StoreInCache(p) ==
    /\ pc[p] = "L37"
    /\ cache' = [cache EXCEPT ![filename[p]] = data[p]]
    /\ pc' = [pc EXCEPT ![p] = "L39"]
    /\ UNCHANGED <<others, query, fs, filename, hit, data, ret, settings, now, counters, history>>

\* Line 39: return data; the local goes out of scope.
ReturnLoaded(p) ==
    /\ pc[p] = "L39"
    /\ ret' = [ret EXCEPT ![p] = data[p]]
    /\ data' = [data EXCEPT ![p] = NoReturn]
    /\ pc' = [pc EXCEPT ![p] = "done"]
    /\ okVal' = IF okVal[filename[p]] = NotCached /\ IsCached(filename[p])
                THEN [okVal EXCEPT ![filename[p]] = data[p]]
                ELSE okVal
    /\ UNCHANGED <<others, query, fs, cache, filename, hit, settings, now, counters,
                   afterOk, pending, fileAbsent, fileMalformed, afterFail,
                   fileValid>>

\* clear_cache with popitem() in place of clear(): one entry is removed.
clear_cache_PopOne ==
    /\ nclears < MaxClears
    /\ nclears' = nclears + 1
    /\ cache' = IF CachedFiles = {}
                THEN cache
                ELSE [cache EXCEPT ![CHOOSE f \in CachedFiles : TRUE] = NotCached]
    /\ okVal' = [f \in DOMAIN okVal |-> NotCached]
    /\ afterOk' = [p \in Threads |-> FALSE]
    /\ pending' = CachedFiles
    /\ UNCHANGED <<others, query, fs, pc, filename, hit, data, ret, settings, now,
                   ncalls, nchanges, fileAbsent, fileMalformed, afterFail,
                   fileValid>>

\* Lines 110-113: clear_cache, dict.clear() in one step.
clear_cache ==
    /\ nclears < MaxClears
    /\ nclears' = nclears + 1
    /\ cache' = [f \in DOMAIN cache |-> NotCached]
    /\ okVal' = [f \in DOMAIN okVal |-> NotCached]
    /\ afterOk' = [p \in Threads |-> FALSE]
    /\ pending' = CachedFiles
    /\ UNCHANGED <<others, query, fs, pc, filename, hit, data, ret, settings, now,
                   ncalls, nchanges, fileAbsent, fileMalformed, afterFail,
                   fileValid>>

\* The environment: a data file is created, replaced or removed.
FsChange(f, s) ==
    /\ nchanges < MaxFsChanges
    /\ s # fs[f]
    /\ nchanges' = nchanges + 1
    /\ fs' = [fs EXCEPT ![f] = s]
    /\ fileAbsent' = [p \in Threads |->
                        fileAbsent[p] /\ ~(filename[p] = f /\ pc[p] # "done")]
    /\ fileMalformed' = [p \in Threads |->
                        fileMalformed[p]
                        /\ ((filename[p] = f /\ pc[p] # "done") => IsMalformed(s))]
    /\ fileValid' = [p \in Threads |->
                        fileValid[p] /\ ~(filename[p] = f /\ pc[p] # "done")]
    /\ UNCHANGED <<others, query, cache, pc, filename, hit, data, ret, settings, now,
                   ncalls, nclears, okVal, afterOk, pending, afterFail>>

\* The environment: a second passes.
Tick ==
    /\ now < MaxTime
    /\ now' = now + 1
    /\ UNCHANGED <<others, query, fs, cache, pc, filename, hit, data, ret, settings,
                   counters, history>>

LoaderStep ==
    \/ \E p \in Threads, f \in Files : LoadCall(p, f)
    \/ \E p \in Threads : ReturnCached(p)
    \/ \E p \in Threads : CheckExists(p)
    \/ \E p \in Threads : ReadAndParse(p)
    \/ \E p \in Threads : StoreInCache(p)
    \/ \E p \in Threads : ReturnLoaded(p)

Next ==
    \/ LoaderStep
    \/ clear_cache
    \/ \E f \in Files, s \in FileStates : FsChange(f, s)

Spec == Init /\ [][Next]_vars

(***************************************************************************)
(* The service under any cache settings and with time passing, over the    *)
(* data directory as shipped (page.json an object, projects.json an array). *)
(***************************************************************************)
InitSettings ==
    /\ InitService
    /\ NoQuery
    /\ NoRequest
    /\ NoAI
    /\ cache_enabled \in BOOLEAN
    /\ cache_ttl \in {1, 300}
    /\ cache_max_size \in {1, 1000}
    /\ fs = [f \in Files |-> IF f = "page.json"
                             THEN FileWith("{\"name\": \"A\"}")
                             ELSE FileWith("[{\"id\": \"p1\"}]")]

NextSettings ==
    \/ Next
    \/ Tick

SpecSettings == InitSettings /\ [][NextSettings]_vars

(***************************************************************************)
(* The steps of a thread, as seen on a pair of states.                     *)
(***************************************************************************)
CallStep(p) == pc[p] \in {"idle", "done"} /\ pc'[p] \in {"L26", "L31"}
ReadStep(p) == pc[p] = "L35" /\ pc'[p] # "L35"
StoreStep(p) == pc[p] = "L37" /\ pc'[p] = "L39"
ReturnLoadedStep(p) == pc[p] = "L39" /\ pc'[p] = "done"
ClearStep == nclears' # nclears

Scalars == {"NoneType", "int", "str", "bool"}

(***************************************************************************)
(* Claims.                                                                 *)
(***************************************************************************)

\* C1 (as stated): a load of a filename that begins after a load of it has
\* read the file, cached it and returned, with no clear_cache since, takes
\* the cached branch (no exists(), no read) and returns the value that load
\* returned.
C1_LaterLoadsReturnFirstValue ==
    \A p \in Threads :
        (pc[p] = "done" /\ afterOk[p])
            => (hit[p] /\ ret[p] = okVal[filename[p]])

\* C2 (as stated): the value cached under a filename is never replaced by a
\* later read: while the key stays in the cache its value does not change.
C2_CachedValueNeverReplaced ==
    [][\A f \in Files :
          (IsCached(f) /\ cache'[f] # NotCached) => cache'[f] = cache[f]]_vars

\* C3: with the files unchanged and no clear_cache, under every interleaving
\* every load of a file holding valid JSON returns the parsed text of that
\* file, whichever branch it took, and from the first store on the cache
\* holds exactly that value under the filename.
C3_ConcurrentLoadsAgree ==
    (nchanges = 0 /\ nclears = 0) =>
        \A p \in Threads :
            HoldsValidJson(filename[p]) =>
                LET v == json_load(fs[filename[p]].text) IN
                /\ pc[p] = "done" => ret[p] = v
                /\ pc[p] \in {"L26", "L39", "done"} => cache[filename[p]] = v
                /\ pc[p] \in {"L37", "L39"} => data[p] = v

\* C3, witness: two loads of the same uncached file both read it (the
\* redundant read) and both returned its parsed list.
C3_Witness ==
    /\ nchanges = 0
    /\ nclears = 0
    /\ \A p \in Threads : pc[p] = "done" /\ ~hit[p]
    /\ \A p \in Threads : filename[p] = "projects.json"
    /\ \A p \in Threads : ret[p] = cache["projects.json"] /\ ret[p].type = "list"

\* C4 (as stated): every store of line 37 lands on a key that is not in the
\* cache at the moment of the store.
C4_StoreOnlyOnAbsentKey ==
    [][\A p \in Threads : StoreStep(p) => ~IsCached(filename[p])]_vars

\* C4 (amended): the cache changes only by clear_cache and by the store of
\* line 37; the storing load found the filename absent at its own test of
\* line 25, and the store puts a complete parsed value under that filename
\* and touches no other key.
C4_StoreOnlyAfterOwnMiss ==
    [][/\ \A f \in Files :
            cache'[f] # cache[f] =>
                \/ ClearStep
                \/ \E p \in Threads : StoreStep(p) /\ filename[p] = f
       /\ \A p \in Threads :
            StoreStep(p) =>
                /\ ~hit[p]
                /\ data[p] \in JsonValues
                /\ cache' = [cache EXCEPT ![filename[p]] = data[p]]]_vars

\* C4, witness: two loads that both missed have both stored under the same
\* filename with no clear between: the second store landed on a present key.
C4_Witness ==
    /\ nclears = 0
    /\ \A p \in Threads : pc[p] \in {"L39", "done"} /\ ~hit[p]
    /\ \A p \in Threads : filename[p] = "projects.json"
    /\ cache["projects.json"] \in JsonValues

\* C5 (as stated): the first load of a filename that begins after a
\* clear_cache that removed it finds it absent from the cache, so it reads
\* the file again.
C5_LoadAfterClearRereads ==
    [][\A p \in Threads :
          (CallStep(p) /\ filename'[p] \in pending) => ~hit'[p]]_vars

\* C6: clear_cache leaves the cache empty whatever it held, and every step
\* that removes an entry is a clear_cache that removes them all.
C6_ClearEmptiesCache ==
    [][/\ ClearStep => \A f \in Files : cache'[f] = NotCached
       /\ (\E f \in Files : IsCached(f) /\ cache'[f] = NotCached) =>
            (ClearStep /\ \A f \in Files : cache'[f] = NotCached)]_vars

\* C6, witness: clear_cache ran on a cache holding every file, and the cache
\* is empty.
C6_Witness ==
    /\ nclears > 0
    /\ pending = Files
    /\ CachedFiles = {}

\* C7: no step other than clear_cache removes a key from the cache,
\* whatever the settings, the number of entries and the time elapsed.
C7_NoEviction ==
    [][~ClearStep => \A f \in Files : IsCached(f) => cache'[f] # NotCached]_vars

\* C7, witness: caching disabled in the settings, more entries than
\* cache_max_size, more seconds elapsed than cache_ttl since the entries
\* were made, and every entry still there after a further load.
C7_Witness ==
    /\ ~cache_enabled
    /\ Cardinality(CachedFiles) > cache_max_size
    /\ now > cache_ttl
    /\ nclears = 0
    /\ ncalls = MaxCalls
    /\ \A p \in Threads : pc[p] = "done"

\* C8: a load that missed the cache and reads a file holding valid JSON
\* takes the parsed text as its data, stores exactly that under its own
\* filename, leaving every other key as it was, and returns that same value.
C8_LoadStoresAndReturnsParsed ==
    [][\A p \in Threads :
          /\ (ReadStep(p) /\ HoldsValidJson(filename[p])) =>
                (pc'[p] = "L37" /\ data'[p] = json_load(fs[filename[p]].text))
          /\ StoreStep(p) => cache' = [cache EXCEPT ![filename[p]] = data[p]]
          /\ ReturnLoadedStep(p) => (ret'[p] = data[p] /\ cache' = cache)]_vars

\* C8, witness: a load that missed returned the parsed object of page.json,
\* and the cache holds it under page.json and nothing under projects.json.
C8_Witness ==
    \E p \in Threads :
        /\ pc[p] = "done" /\ ~hit[p] /\ filename[p] = "page.json"
        /\ HoldsValidJson("page.json")
        /\ ret[p] = json_load(fs["page.json"].text)
        /\ ret[p].type = "dict"
        /\ cache["page.json"] = ret[p]
        /\ ~IsCached("projects.json")

\* C9 (as stated): every cached value is a list or a dict.
C9_OnlyContainersCached ==
    \A f \in Files : IsCached(f) => cache[f].type \in {"list", "dict"}

\* C9 (amended): every cached value is a complete parsed JSON value of any
\* type; a load that reads valid JSON goes on to the store whatever the type
\* of the top level, and its store creates the entry.
C9_AnyJsonValueCached ==
    /\ [](\A f \in Files : cache[f] \in JsonValues \cup {NotCached})
    /\ [][\A p \in Threads :
            /\ (ReadStep(p) /\ HoldsValidJson(filename[p])) => pc'[p] = "L37"
            /\ StoreStep(p) => cache'[filename[p]] \in JsonValues]_vars

\* C9, witness: the cache holds None (from the text null) under one file
\* and another scalar under the other.
C9_Witness ==
    /\ cache["page.json"] = PyNone
    /\ IsCached("projects.json")
    /\ cache["projects.json"].type \in Scalars \ {"NoneType"}

\* C10 (as stated): a load whose file has not existed at any moment of the
\* call returns None.
C10_MissingFileReturnsNone ==
    \A p \in Threads : (pc[p] = "done" /\ fileAbsent[p]) => ret[p] = PyNone

\* C10 (amended): a load that found the filename absent from the cache and
\* whose file has not existed at any moment of the call returns None, and
\* does not raise.
C10_UncachedMissingFileReturnsNone ==
    \A p \in Threads :
        (pc[p] = "done" /\ fileAbsent[p] /\ ~hit[p]) => ret[p] = PyNone

\* C10, witness: such a load has returned None, the cache left empty.
C10_Witness ==
    \E p \in Threads :
        /\ pc[p] = "done" /\ fileAbsent[p] /\ ~hit[p]
        /\ ret[p] = PyNone
        /\ CachedFiles = {}

\* C11 (as stated): a load whose file has held invalid JSON at every moment
\* of the call returns None, the value returned for a missing file.
C11_MalformedFileReturnsNone ==
    \A p \in Threads : (pc[p] = "done" /\ fileMalformed[p]) => ret[p] = PyNone

\* C11 (amended): a load that found the filename absent from the cache and
\* whose file has held invalid JSON at every moment of the call returns
\* None and does not raise, the same value a load of a missing file returns;
\* the failed read leaves no entry under the filename.
C11_UncachedMalformedFileReturnsNone ==
    /\ [](\A p \in Threads :
            (pc[p] = "done" /\ fileMalformed[p] /\ ~hit[p]) => ret[p] = PyNone)
    /\ [](\A p, q \in Threads :
            (/\ pc[p] = "done" /\ fileMalformed[p] /\ ~hit[p]
             /\ pc[q] = "done" /\ fileAbsent[q] /\ ~hit[q]) => ret[p] = ret[q])
    /\ [][\A p \in Threads :
            (ReadStep(p) /\ IsMalformed(fs[filename[p]])) =>
                (pc'[p] = "done" /\ cache' = cache)]_vars

\* C11, witness: one load has returned from a file of invalid JSON and one
\* from a missing file, both with None, the cache left empty.
C11_Witness ==
    \E p, q \in Threads :
        /\ pc[p] = "done" /\ fileMalformed[p] /\ ~hit[p]
        /\ pc[q] = "done" /\ fileAbsent[q] /\ ~hit[q]
        /\ ret[p] = PyNone /\ ret[q] = PyNone
        /\ CachedFiles = {}

(***************************************************************************)
(* The Query Layer: DataService.get_projects_data, get_project_by_id,      *)
(* get_experience_data (services/data_service.py) and the routes           *)
(* get_projects, get_project_by_id, get_profile (routes/data_routes.py).   *)
(* A query loads a document and computes on the value the load returned;   *)
(* qdata is that value.                                                    *)
(***************************************************************************)
MaxDocLen == 2

\* Outcomes of a query that are not Python values.
AttributeError == [type |-> "<AttributeError raised>"]
HTTPException404 == [type |-> "<HTTPException 404 raised>"]
ValidationError == [type |-> "<pydantic ValidationError raised>"]
\* An argument the caller did not pass.
NoArg == [type |-> "<argument not passed>"]

IsList(v) == v.type = "list"
IsDict(v) == v.type = "dict"
IsStr(v) == v.type = "str"

\* bool(v), the test of `if category:`.
Truthy(v) ==
    CASE v.type = "NoneType" -> FALSE
      [] v.type = "bool" -> v.bool
      [] v.type = "int" -> v.num # 0
      [] v.type = "str" -> v.str # ""
      [] v.type = "list" -> v.items # <<>>
      [] v.type = "dict" -> DOMAIN v.fields # {}
      [] OTHER -> TRUE

\* a == b.  bool is a subclass of int: True == 1 and False == 0.
IsNum(v) == v.type \in {"int", "bool"}
NumOf(v) == IF v.type = "bool" THEN (IF v.bool THEN 1 ELSE 0) ELSE v.num
PyEq(a, b) == IF IsNum(a) /\ IsNum(b) THEN NumOf(a) = NumOf(b) ELSE a = b

\* str.lower() on the strings of the model.
lower(s) ==
    CASE s = "AI" -> "ai"
      [] s = "P1" -> "p1"
      [] OTHER -> s

\* p.get(key, default) on a dict.
get(p, key, default) ==
    IF key \in DOMAIN p.fields THEN p.fields[key] ELSE default

Min(a, b) == IF a <= b THEN a ELSE b
Max(a, b) == IF a >= b THEN a ELSE b

\* xs[:n]: a negative n counts from the end of the list.
Slice(xs, n) ==
    SubSeq(xs, 1, IF n >= 0 THEN Min(n, Len(xs)) ELSE Max(Len(xs) + n, 0))

(***************************************************************************)
(* The documents a query may find loaded.                                  *)
(***************************************************************************)
Records == {RecAI, RecAiLower, RecWeb, RecDupId, RecEmptyCategory, RecOddTypes}
\* Elements of an array: records, and a value that is not an object.
Elements == Records \cup {PyInt(7)}

SeqsUpTo(S, n) == UNION { [1..k -> S] : k \in 0..n }
ShortDocs == SeqsUpTo(Elements, MaxDocLen)

LongDocs == {LongDoc(DefaultLimit), LongDoc(DefaultLimit + 1)}

\* What the load of a query may have returned: None, a JSON value of any
\* shape, or an array.
QueryData == JsonValues \cup { PyList(xs) : xs \in ShortDocs \cup LongDocs }

\* The arguments of the calls.
Categories == {PyNone, PyStr(""), PyStr("ai"), PyStr("AI"), PyStr("web")}
FeaturedFlags == {PyNone, PyBool(TRUE), PyBool(FALSE)}
Limits ==
    {NoArg} \cup { PyInt(n) : n \in {-1, 0, 1, 2, DefaultLimit, DefaultLimit + 1} }
ProjectIds == {PyStr("p1"), PyStr("P1"), PyStr("p2"), PyStr("zz")}

(***************************************************************************)
(* The filter of get_projects_data (lines 75-83) and of the route          *)
(* get_projects (lines 81-89), the same statements in both.                *)
(***************************************************************************)
\* p.get("category", "").lower() raises AttributeError when p has no get
\* (not a dict) or the category has no lower (not a str).
CategoryRaises(p) == ~IsDict(p) \/ ~IsStr(get(p, "category", PyStr("")))
CategoryMatches(p, category) ==
    lower(get(p, "category", PyStr("")).str) = lower(category.str)

\* FeaturedMatches with True as the default of a missing field.
FeaturedMatches_DefaultTrue(p, featured) ==
    PyEq(get(p, "featured", PyBool(TRUE)), featured)

\* p.get("featured", False) == featured.
FeaturedMatches(p, featured) ==
    PyEq(get(p, "featured", PyBool(FALSE)), featured)

\* LimitOf with no default: a call without limit is not truncated.
LimitOf_NoDefault(limit) ==
    IF limit = NoArg THEN 2 * DefaultLimit ELSE limit.num

\* The parameter `limit: int = 50`.
LimitOf(limit) == IF limit = NoArg THEN DefaultLimit ELSE limit.num

\* filtered is `projects` after line 80, projects is `projects` after the
\* slice of line 83; either is AttributeError when a comprehension raised.
ApplyFilters(projects, category, featured, limit) ==
    LET InCategory(p) == CategoryMatches(p, category)
        IsFeatured(p) == FeaturedMatches(p, featured)
        byCategory ==
            IF ~Truthy(category) THEN PyList(projects)
            ELSE IF \E i \in 1..Len(projects) : CategoryRaises(projects[i])
                 THEN AttributeError
                 ELSE PyList(SelectSeq(projects, InCategory))
        filtered ==
            IF byCategory = AttributeError \/ featured = PyNone THEN byCategory
            ELSE IF \E i \in 1..Len(byCategory.items) : ~IsDict(byCategory.items[i])
                 THEN AttributeError
                 ELSE PyList(SelectSeq(byCategory.items, IsFeatured))
    IN [filtered |-> filtered,
        projects |-> IF filtered = AttributeError THEN AttributeError
                     ELSE PyList(Slice(filtered.items, LimitOf(limit)))]

\* get_projects_data_outcome with an empty list for a value that is not a list.
get_projects_data_outcome_EmptyOnMismatch(doc, category, featured, limit) ==
    IF doc = PyNone \/ ~IsList(doc)
    THEN [filtered |-> NoReturn, projects |-> NoReturn, result |-> PyList(<<>>)]
    ELSE LET f == ApplyFilters(doc.items, category, featured, limit)
         IN [filtered |-> f.filtered, projects |-> f.projects,
             result |-> f.projects]

\* DataService.get_projects_data, lines 64-85, on the value the load returned.
get_projects_data_outcome(doc, category, featured, limit) ==
    IF doc = PyNone \/ ~IsList(doc)
    THEN [filtered |-> NoReturn, projects |-> NoReturn, result |-> PyNone]
    ELSE LET f == ApplyFilters(doc.items, category, featured, limit)
         IN [filtered |-> f.filtered, projects |-> f.projects,
             result |-> f.projects]

\* APIResponse(data=d): the field is Optional[Dict[str, Any]] (schemas.py
\* line 14), so pydantic rejects a value that is neither a dict nor None.
APIResponse(d) ==
    IF d.type \in {"dict", "NoneType"}
    THEN [type |-> "APIResponse", success |-> TRUE, data |-> d]
    ELSE ValidationError

\* The route get_projects, data_routes.py lines 75-95.
get_projects_outcome(doc, category, featured, limit) ==
    IF doc = PyNone
    THEN [filtered |-> NoReturn, projects |-> NoReturn,
          result |-> HTTPException404]
    ELSE LET f == ApplyFilters(IF IsList(doc) THEN doc.items ELSE <<>>,
                               category, featured, limit)
         IN [filtered |-> f.filtered, projects |-> f.projects,
             result |-> IF f.projects = AttributeError THEN AttributeError
                        ELSE APIResponse(f.projects)]

(***************************************************************************)
(* Point lookup.                                                           *)
(***************************************************************************)
\* IdMatches comparing the identifiers with case folded.
IdMatches_CaseFolded(p, project_id) ==
    LET id == get(p, "id", PyNone)
    IN IF IsStr(id) THEN lower(id.str) = lower(project_id.str)
       ELSE PyEq(id, project_id)

\* project.get("id") == project_id.
IdMatches(p, project_id) == PyEq(get(p, "id", PyNone), project_id)

\* The scan of lines 94-98 (and of next(...) at data_routes.py line 130): it
\* ends at the first element that matches, or that has no get and raises.
FirstMatch(projects, project_id) ==
    LET stops == { i \in 1..Len(projects) :
                      ~IsDict(projects[i]) \/ IdMatches(projects[i], project_id) }
    IN IF stops = {} THEN PyNone
       ELSE LET i == CHOOSE k \in stops : \A j \in stops : k <= j
            IN IF IsDict(projects[i]) THEN projects[i] ELSE AttributeError

\* DataService.get_project_by_id, lines 89-98.
get_project_by_id_outcome(doc, project_id) ==
    IF doc = PyNone \/ ~IsList(doc)
    THEN [project |-> NoReturn, result |-> PyNone]
    ELSE LET project == FirstMatch(doc.items, project_id)
         IN [project |-> project, result |-> project]

\* The route get_project_by_id, data_routes.py lines 126-140.
get_project_by_id_route_outcome(doc, project_id) ==
    IF doc = PyNone
    THEN [project |-> NoReturn, result |-> HTTPException404]
    ELSE LET project == FirstMatch(IF IsList(doc) THEN doc.items ELSE <<>>,
                                   project_id)
         IN [project |-> project,
             result |-> CASE project = AttributeError -> AttributeError
                          [] project = PyNone -> HTTPException404
                          [] OTHER -> APIResponse(project)]

(***************************************************************************)
(* Whole-document fetches.                                                 *)
(***************************************************************************)
\* get_profile_data, get_intro_data, get_layout_data (lines 48-58).
get_profile_data_outcome(doc) == [result |-> doc]

\* get_experience_data, get_certificates_data (lines 100-108).
get_experience_data_outcome(doc) ==
    [result |-> IF IsList(doc) THEN doc ELSE PyNone]

\* The routes get_profile, get_intro, get_layout, get_experience and
\* get_certificates (data_routes.py lines 29-67 and 97-121).
get_document_outcome(doc) ==
    [result |-> IF doc = PyNone THEN HTTPException404 ELSE APIResponse(doc)]

(***************************************************************************)
(* The queries as actions, one query in a behaviour.  A query changes      *)
(* nothing but its own record: the comprehensions and the slice build new  *)
(* lists, and the load it begins with is the subject of Spec.              *)
(***************************************************************************)
QueryLeaves ==
    UNCHANGED <<qdata, fs, cache, pc, filename, hit, data, ret, settings, now,
                counters, history, others>>

get_projects_data(category, featured, limit) ==
    /\ qcall = NoCall
    /\ qcall' = [op |-> "get_projects_data", category |-> category,
                 featured |-> featured, limit |-> limit]
    /\ qret' = get_projects_data_outcome(qdata, category, featured, limit)
    /\ QueryLeaves

get_projects(category, featured, limit) ==
    /\ qcall = NoCall
    /\ qcall' = [op |-> "get_projects", category |-> category,
                 featured |-> featured, limit |-> limit]
    /\ qret' = get_projects_outcome(qdata, category, featured, limit)
    /\ QueryLeaves

get_project_by_id(project_id) ==
    /\ qcall = NoCall
    /\ qcall' = [op |-> "get_project_by_id", project_id |-> project_id]
    /\ qret' = get_project_by_id_outcome(qdata, project_id)
    /\ QueryLeaves

get_project_by_id_route(project_id) ==
    /\ qcall = NoCall
    /\ qcall' = [op |-> "get_project_by_id_route", project_id |-> project_id]
    /\ qret' = get_project_by_id_route_outcome(qdata, project_id)
    /\ QueryLeaves

get_profile_data ==
    /\ qcall = NoCall
    /\ qcall' = [op |-> "get_profile_data"]
    /\ qret' = get_profile_data_outcome(qdata)
    /\ QueryLeaves

get_experience_data ==
    /\ qcall = NoCall
    /\ qcall' = [op |-> "get_experience_data"]
    /\ qret' = get_experience_data_outcome(qdata)
    /\ QueryLeaves

get_profile ==
    /\ qcall = NoCall
    /\ qcall' = [op |-> "get_profile"]
    /\ qret' = get_document_outcome(qdata)
    /\ QueryLeaves

get_experience ==
    /\ qcall = NoCall
    /\ qcall' = [op |-> "get_experience"]
    /\ qret' = get_document_outcome(qdata)
    /\ QueryLeaves

\* A service whose next load returns qdata; the query operates on that value.
InitQuery ==
    /\ InitService
    /\ DefaultSettings
    /\ NoRequest
    /\ NoAI
    /\ fs = [f \in Files |-> MissingFile]
    /\ qdata \in QueryData
    /\ qcall = NoCall
    /\ qret = NoReturn

NextQuery ==
    \/ \E c \in Categories, f \in FeaturedFlags, l \in Limits :
          get_projects_data(c, f, l)
    \/ \E c \in Categories, f \in FeaturedFlags, l \in Limits :
          get_projects(c, f, l)
    \/ \E id \in ProjectIds : get_project_by_id(id)
    \/ \E id \in ProjectIds : get_project_by_id_route(id)
    \/ get_profile_data
    \/ get_experience_data
    \/ get_profile
    \/ get_experience

SpecQuery == InitQuery /\ [][NextQuery]_vars

FilterOps == {"get_projects_data", "get_projects"}
LookupOps == {"get_project_by_id", "get_project_by_id_route"}
ServiceFetchOps == {"get_profile_data", "get_experience_data"}
RouteFetchOps == {"get_profile", "get_experience"}

\* Every element of the array is a record, that is an object.
AllRecords(xs) == \A i \in 1..Len(xs) : IsDict(xs[i])
\* ... and the category of each, when it has one, is a string.
StringCategories(xs) == \A i \in 1..Len(xs) : ~CategoryRaises(xs[i])

\* What the filter of the call produced: the value get_projects_data
\* returned, or the local `projects` of the route before the response.
FilterResult ==
    IF qcall.op = "get_projects_data" THEN qret.result ELSE qret.projects

\* C12: no call of the Query Layer (filter, point lookup, fetch) raises, for
\* any loaded document, arrays whose elements are not objects and records
\* whose category is not a string included: no call ends in an uncaught
\* AttributeError.  (The HTTPException of a route is its not-found answer
\* and is not counted here.)
C12_QueryLayerNeverRaises ==
    qcall # NoCall => qret.result # AttributeError

NoCriteria ==
    /\ qcall.category = PyNone
    /\ qcall.featured = PyNone
    /\ qcall.limit = NoArg

C15_LimitTakesPrefix ==
    (/\ qcall.op \in FilterOps
     /\ IsList(qdata)
     /\ qcall.limit # NoArg
     /\ qret.filtered # AttributeError) =>
        FilterResult =
            PyList(SubSeq(qret.filtered.items, 1,
                          Min(Max(qcall.limit.num, 0), Len(qret.filtered.items))))

\* C16: when a category criterion is given, filter keeps exactly the records
\* whose category equals the criterion, case folded, a record without the
\* field counting as having the empty string; with the empty criterion a
\* record with a non-empty category is not kept.  Stated over arrays of
\* records whose categories are strings.
C16_CategoryKeepsCaseInsensitiveMatches ==
    (/\ qcall.op \in FilterOps
     /\ IsList(qdata)
     /\ StringCategories(qdata.items)
     /\ qcall.category # PyNone
     /\ qcall.featured = PyNone) =>
        LET SameCategory(p) == CategoryMatches(p, qcall.category)
        IN qret.filtered = PyList(SelectSeq(qdata.items, SameCategory))

\* The featured field of a record, false for a record without the field.
FlagOf(p) ==
    IF "featured" \in DOMAIN p.fields THEN p.fields.featured ELSE PyBool(FALSE)

\* C17: when a featured criterion (true or false) is given, and no category,
\* filter on an array of records keeps exactly the records whose featured
\* field equals the criterion (Python ==), in document order, a record
\* without the field counting as featured = false: featured = false keeps
\* the records that lack the field and featured = true drops them.
C17_FeaturedKeepsEqualFlags ==
    (/\ qcall.op \in FilterOps
     /\ IsList(qdata)
     /\ AllRecords(qdata.items)
     /\ qcall.category = PyNone
     /\ qcall.featured # PyNone) =>
        LET SameFlag(p) == PyEq(FlagOf(p), qcall.featured)
            kept == qret.filtered.items
        IN /\ qret.filtered = PyList(SelectSeq(qdata.items, SameFlag))
           /\ \A i \in 1..Len(qdata.items) :
                 "featured" \notin DOMAIN qdata.items[i].fields =>
                     ((\E j \in 1..Len(kept) : kept[j] = qdata.items[i])
                         <=> qcall.featured = PyBool(FALSE))

\* featured = false on a featured record followed by a record without the
\* field has kept the second record alone.
C17_Witness ==
    /\ qcall.op \in FilterOps
    /\ qdata = PyList(<<RecAI, RecWeb>>)
    /\ qcall.category = PyNone
    /\ qcall.featured = PyBool(FALSE)
    /\ qret.filtered = PyList(<<RecWeb>>)

\* C18: when both a category and a featured criterion are given, a record is
\* in the result of filter if and only if it satisfies the category
\* criterion (C16) and the featured criterion (C17).  Stated over arrays of
\* records whose categories are strings.
C18_BothCriteriaIntersect ==
    (/\ qcall.op \in FilterOps
     /\ IsList(qdata)
     /\ StringCategories(qdata.items)
     /\ qcall.category # PyNone
     /\ qcall.featured # PyNone) =>
        LET Both(p) == /\ CategoryMatches(p, qcall.category)
                       /\ PyEq(FlagOf(p), qcall.featured)
        IN qret.filtered = PyList(SelectSeq(qdata.items, Both))

\* The record carries exactly this identifier.
HasId(p, project_id) == "id" \in DOMAIN p.fields /\ p.fields.id = project_id

\* What a point lookup answers when it found `project`, and when it found
\* nothing: the service returns the record or None, the route wraps the
\* record in its response or raises its not-found error.
LookupFound(project) ==
    IF qcall.op = "get_project_by_id" THEN project
    ELSE [type |-> "APIResponse", success |-> TRUE, data |-> project]
LookupNotFound ==
    IF qcall.op = "get_project_by_id" THEN PyNone ELSE HTTPException404

\* C19: point lookup on an array of records returns the first record, in
\* document order, whose identifier equals the requested value exactly, no
\* case folded, also when several records carry it; it answers absence when
\* no record matches.
C19_LookupReturnsFirstExactMatch ==
    (/\ qcall.op \in LookupOps
     /\ IsList(qdata)
     /\ AllRecords(qdata.items)) =>
        LET matches == { i \in 1..Len(qdata.items) :
                            HasId(qdata.items[i], qcall.project_id) }
        IN IF matches = {}
           THEN qret.project = PyNone /\ qret.result = LookupNotFound
           ELSE \E i \in matches :
                   /\ \A j \in matches : i <= j
                   /\ qret.project = qdata.items[i]
                   /\ qret.result = LookupFound(qdata.items[i])

\* Two records carry "p1"; the lookup of "p1" has answered the first, and
\* the record "P1" before them was passed over.
C19_Witness ==
    /\ qcall.op \in LookupOps
    /\ qdata = PyList(<<RecWeb, RecDupId>>)
    /\ qcall.project_id = PyStr("p1")
    /\ qret.project = RecDupId

\* C20: a whole-document fetch answers not-found only when the load returned
\* absence; when the load returned a value of an unexpected shape the
\* service's fetch still returns that whole document.
C20_FetchReturnsWholeDocument ==
    /\ qcall.op \in ServiceFetchOps => qret.result = qdata
    /\ qcall.op \in RouteFetchOps =>
          (qret.result = HTTPException404 <=> qdata = PyNone)

(***************************************************************************)
(* The HTTP boundary (routes/data_routes.py).  A route loads its file with *)
(* load_json_data, computes and answers, in one action.  The whole-document *)
(* routes (profile, intro, layout, experience, certificates) are the same  *)
(* statements on different files; request_document is each of them.        *)
(***************************************************************************)
RouteFileStates ==
    FileStates \cup {FileWith(ArrayOfNumberText), FileWith(UndecodableText)}

\* Lines 16-27: open and json.load under the two handlers, FileNotFoundError
\* and json.JSONDecodeError; any other exception leaves the function.
load_json_data(file) ==
    IF ~file.exists THEN PyNone
    ELSE LET parsed == json_load(file.text)
         IN IF parsed = JSONDecodeError THEN PyNone ELSE parsed

\* The file is read and parsed without an exception.
LoadsOk(file) ==
    file.exists /\ json_load(file.text) \notin {JSONDecodeError, UnicodeDecodeError}

\* A request opens its file; what the load gave is qdata'.  An exception
\* load_json_data does not catch leaves the route as well.
RequestLoad(file) ==
    /\ ncalls < MaxCalls
    /\ ncalls' = ncalls + 1
    /\ reads' = [reads EXCEPT ![file] = @ + 1]
    /\ qdata' = load_json_data(fs[file])
    /\ okVal' = IF okVal[file] = NotCached /\ LoadsOk(fs[file])
                THEN [okVal EXCEPT ![file] = qdata']
                ELSE okVal
    /\ UNCHANGED <<fs, cache, pc, filename, hit, data, ret, settings, now,
                   nchanges, nclears, afterOk, pending, fileAbsent,
                   fileMalformed, afterFail, fileValid, ai, stat>>
Answer(loaded, outcome) ==
    IF loaded = UnicodeDecodeError THEN [result |-> loaded] ELSE outcome

\* get_profile and the four routes like it (lines 29-67 and 97-121).
request_document ==
    /\ RequestLoad("page.json")
    /\ qcall' = [op |-> "GET /profile", file |-> "page.json"]
    /\ qret' = Answer(qdata', get_document_outcome(qdata'))

\* get_projects (lines 68-95).
request_projects(category, featured, limit) ==
    /\ RequestLoad("projects.json")
    /\ qcall' = [op |-> "GET /projects", file |-> "projects.json",
                 category |-> category, featured |-> featured, limit |-> limit]
    /\ qret' = Answer(qdata',
                      get_projects_outcome(qdata', category, featured, limit))

\* get_project_by_id (lines 123-140).
request_project_by_id(project_id) ==
    /\ RequestLoad("projects.json")
    /\ qcall' = [op |-> "GET /projects/{project_id}", file |-> "projects.json",
                 project_id |-> project_id]
    /\ qret' = Answer(qdata',
                      get_project_by_id_route_outcome(qdata', project_id))

InitRoutes ==
    /\ InitService
    /\ DefaultSettings
    /\ NoQuery
    /\ NoRequest
    /\ NoAI
    /\ fs \in [Files -> RouteFileStates]

NextRoutes ==
    \/ request_document
    \/ \E c \in {PyNone, PyStr("ai")}, f \in {PyNone, PyBool(TRUE)},
          l \in {NoArg, PyInt(1)} : request_projects(c, f, l)
    \/ \E id \in ProjectIds : request_project_by_id(id)
    \/ \E f \in Files, s \in RouteFileStates : FsChange(f, s)

SpecRoutes == InitRoutes /\ [][NextRoutes]_vars

\* A step that is a request.
RequestStep == ncalls' = ncalls + 1
\* The file holds no JSON text: the parse fails, or the bytes do not decode.
HoldsNoJson(file) == file.exists /\ ~LoadsOk(file)
\* No record of the document carries the identifier.
NoRecordCarries(doc, project_id) ==
    ~IsList(doc) \/ \A i \in 1..Len(doc.items) :
                       ~(IsDict(doc.items[i]) /\ HasId(doc.items[i], project_id))

\* C21: for every data operation of the boundary, a missing file, a file
\* that holds no well-formed JSON, and a requested project id that no
\* record carries each end in the not-found outcome (HTTP 404), never in
\* another error.
C21_FailuresEndInNotFound ==
    [][RequestStep =>
          LET file == fs[qcall'.file]
          IN (\/ ~file.exists
              \/ HoldsNoJson(file)
              \/ /\ qcall'.op = "GET /projects/{project_id}"
                 /\ LoadsOk(file)
                 /\ NoRecordCarries(json_load(file.text), qcall'.project_id))
             => qret'.result = HTTPException404]_vars

\* C22: every data operation of the boundary loads through the Loader: once
\* a request has loaded a file, a later request for the same file is
\* answered from the cache and the file is not read again.
C22_LaterRequestsServedFromCache ==
    [][\A f \in Files :
          (RequestStep /\ qcall'.file = f /\ okVal[f] # NotCached) =>
              (reads'[f] = reads[f] /\ qdata' = okVal[f])]_vars

(***************************************************************************)
(* The AI status operation: the route get_ai_status (routes/ai_routes.py)  *)
(* and AIService.get_ai_status (services/ai_service.py), the latter on the *)
(* providers AIService.__init__ collected when the module was imported.    *)
(***************************************************************************)
\* The values a provider key may have: empty (the default) or a key.
KeyValues == {"", "key-1", "key-2"}
ProviderKeys == {"groq", "openai", "anthropic"}

\* The members of the enum LLMProvider (schemas.py lines 238-244) and their
\* values.  It has no member GROQ.
LLMProvider ==
    "OPENAI" :> "openai" @@ "ANTHROPIC" :> "anthropic" @@ "GOOGLE" :> "google"
    @@ "COHERE" :> "cohere" @@ "MISTRAL" :> "mistral" @@ "LOCAL" :> "local"

\* AIService._initialize_providers, lines 24-53: one entry for each key that
\* is set, under the enum member of its provider; LLMProvider.<member>
\* raises AttributeError for a name the enum lacks.
initialize_providers(keys) ==
    LET wanted == (IF keys.groq # "" THEN {"GROQ"} ELSE {})
                  \cup (IF keys.openai # "" THEN {"OPENAI"} ELSE {})
                  \cup (IF keys.anthropic # "" THEN {"ANTHROPIC"} ELSE {})
    IN IF \E m \in wanted : m \notin DOMAIN LLMProvider
       THEN AttributeError
       ELSE [type |-> "dict", members |-> wanted]

AIStatusResponse(status, provider_status) ==
    [type |-> "AIStatusResponse",
     status |-> status,
     components |-> [llm_service |-> "operational",
                     cache |-> IF cache_enabled THEN "operational" ELSE "disabled"],
     providers |-> provider_status]

\* AIService.get_ai_status, lines 99-125.
service_ai_status ==
    LET names == { LLMProvider[m] : m \in providers.members }
        provider_status == [n \in names |-> TRUE]
        has_providers == Cardinality(DOMAIN provider_status) > 0
    IN AIStatusResponse(IF has_providers THEN "operational" ELSE "degraded",
                        provider_status)

\* The route get_ai_status, ai_routes.py lines 54-78.
route_ai_status ==
    LET providers_status == [k \in { k \in ProviderKeys : api_keys[k] # "" } |-> TRUE]
    IN AIStatusResponse(IF \E k \in DOMAIN providers_status : providers_status[k]
                        THEN "operational" ELSE "degraded",
                        providers_status)

AILeaves ==
    UNCHANGED <<fs, cache, pc, filename, hit, data, ret, settings, now, counters,
                history, qdata, reads, api_keys, stat>>

\* ai_service = AIService() (ai_service.py line 214), at import.
AIService_init ==
    /\ providers = NotConstructed
    /\ providers' = initialize_providers(api_keys)
    /\ UNCHANGED <<qcall, qret>>
    /\ AILeaves

\* ai_service.get_ai_status(), as health_service calls it.  With the import
\* failed there is no ai_service to call.
get_ai_status ==
    /\ providers # NotConstructed
    /\ qcall' = [op |-> "ai_service.get_ai_status"]
    /\ qret' = IF providers = AttributeError THEN AttributeError
               ELSE service_ai_status
    /\ UNCHANGED providers
    /\ AILeaves

\* GET /status of the AI router.
get_ai_status_route ==
    /\ qcall' = [op |-> "GET /ai/status"]
    /\ qret' = route_ai_status
    /\ UNCHANGED providers
    /\ AILeaves

InitAI ==
    /\ InitService
    /\ NoQuery
    /\ NoRequest
    /\ fs = [f \in Files |-> MissingFile]
    /\ cache_enabled \in BOOLEAN
    /\ cache_ttl = 300
    /\ cache_max_size = 1000
    /\ api_keys \in [ProviderKeys -> KeyValues]
    /\ providers = NotConstructed

NextAI ==
    \/ AIService_init
    \/ get_ai_status
    \/ get_ai_status_route

SpecAI == InitAI /\ [][NextAI]_vars

AIStatusOps == {"ai_service.get_ai_status", "GET /ai/status"}
\* The providers whose API key is configured.
Configured == { k \in ProviderKeys : api_keys[k] # "" }

\* C23: the AI status operation always returns a status, a components map
\* and a providers map; the status is "operational" exactly when at least
\* one provider key (groq, openai, anthropic) is configured and "degraded"
\* otherwise, and the providers map holds exactly the configured providers,
\* each mapped to true.
C23_StatusReflectsConfiguredKeys ==
    qcall.op \in AIStatusOps =>
        /\ qret.type = "AIStatusResponse"
        /\ DOMAIN qret.components = {"llm_service", "cache"}
        /\ qret.status = (IF Configured # {} THEN "operational" ELSE "degraded")
        /\ qret.providers = [k \in Configured |-> TRUE]


(***************************************************************************)
(* Failed loads: lines 30-46 of _load_json_file.                           *)
(***************************************************************************)
FailStep(p) == pc[p] \in {"L31", "L35"} /\ pc'[p] = "done"
ReturnStep(p) == pc[p] # "done" /\ pc'[p] = "done"
ContentOf(f) == json_load(fs[f].text)

\* C24 (as stated): the step by which a load returns None for a missing or
\* malformed file leaves the cache as it was, so no entry is created and the
\* failure is not memoized; and a load of the same filename that begins
\* after such a load returned, the file holding valid JSON from the
\* beginning of the call to its end, returns the content of the file.
C24_FailureNotMemoized ==
    /\ [][\A p \in Threads : FailStep(p) => cache' = cache]_vars
    /\ [][\A p \in Threads :
            (ReturnStep(p) /\ afterFail[p] /\ fileValid[p]) =>
                ret'[p] = ContentOf(filename[p])]_vars



(***************************************************************************)
(* The routes against the service: the same query, made of a route and of  *)
(* the DataService, on the same document.                                  *)
(***************************************************************************)
\* What DataService.get_projects_data and DataService.get_project_by_id
\* return for the arguments of the call made.
ServiceProjects ==
    get_projects_data_outcome(qdata, qcall.category, qcall.featured,
                              qcall.limit).result
ServiceProject == get_project_by_id_outcome(qdata, qcall.project_id).result

\* The route answered a response that carries d.
Carries(d) == qret.result.type = "APIResponse" /\ qret.result.data = d

\* C26 (as stated): on an array, the route get_projects answers the sequence
\* of records that get_projects_data returns for the same category, featured
\* and limit, and the route get_project_by_id answers the record that
\* DataService.get_project_by_id returns, or not-found when that returns
\* None; where the service raises, so does the route.
C26_RoutesAgreeWithService ==
    /\ (qcall.op = "get_projects" /\ IsList(qdata)) =>
          IF ServiceProjects = AttributeError
          THEN qret.result = AttributeError
          ELSE Carries(ServiceProjects)
    /\ (qcall.op = "get_project_by_id_route" /\ IsList(qdata)) =>
          CASE ServiceProject = AttributeError -> qret.result = AttributeError
            [] ServiceProject = PyNone -> qret.result = HTTPException404
            [] OTHER -> Carries(ServiceProject)



(***************************************************************************)
(* The DataService as its callers see it (services/data_service.py): the   *)
(* query operations, each a call that runs without interruption and loads  *)
(* its document through the cache, and get_data_stats, taken statement by  *)
(* statement, so that the calls of other threads fall between its reads of *)
(* the cache.                                                              *)
(***************************************************************************)
\* The files get_data_stats counts (lines 64, 102, 107).
DataFiles == {"projects.json", "jobs.json", "certificates.json"}

\* A file is missing, or holds an object, an array of two records or an
\* array longer than the default limit.
ServiceFileStates ==
    {MissingFile, FileWith("{\"name\": \"A\"}"), FileWith(TwoRecordsText),
     FileWith(LongArrayText)}

\* _load_json_file(f), lines 23-46, run to its end: the value it returns,
\* the cache it leaves, and the record of the value a first load stored.
load_value(f) ==
    IF IsCached(f) THEN cache[f]
    ELSE IF LoadsOk(fs[f]) THEN json_load(fs[f].text) ELSE PyNone
load_cache(f) ==
    IF ~IsCached(f) /\ LoadsOk(fs[f])
    THEN [cache EXCEPT ![f] = json_load(fs[f].text)]
    ELSE cache
load_okVal(f) ==
    IF ~IsCached(f) /\ LoadsOk(fs[f])
    THEN [okVal EXCEPT ![f] = json_load(fs[f].text)]
    ELSE okVal

\* The list object a name is bound to: the one in the cache ("cached") or
\* one the call has built ("new").  `projects = data` (line 73) binds the
\* cached list; a comprehension (lines 77, 80) builds a list.
FilteredObject(category, featured) ==
    IF Truthy(category) \/ featured # PyNone THEN "new" ELSE "cached"

\* SliceObject truncating the list in place (del projects[limit:]) in place
\* of slicing it.
SliceObject_InPlace(object) == object

\* projects[:limit] (line 83) builds a list, whatever it is applied to.
SliceObject(object) == "new"

\* get_projects_data on the service, lines 64-85: the document loaded, the
\* outcome, the list object returned and the cache the call leaves.  A list
\* changed in place while bound to the cached object changes the cache.
ProjectsCall(category, featured, limit) ==
    LET doc == load_value("projects.json")
        out == get_projects_data_outcome(doc, category, featured, limit)
        object == IF IsList(out.result)
                  THEN SliceObject(FilteredObject(category, featured))
                  ELSE "none"
        loaded == load_cache("projects.json")
    IN [doc |-> doc,
        ret |-> [filtered |-> out.filtered, projects |-> out.projects,
                 result |-> out.result, object |-> object],
        cache |-> IF object = "cached"
                  THEN [loaded EXCEPT !["projects.json"] = out.result]
                  ELSE loaded]

ServiceLeaves ==
    UNCHANGED <<fs, pc, filename, hit, data, ret, settings, now, nchanges,
                nclears, afterOk, pending, fileAbsent, fileMalformed,
                afterFail, fileValid, reads, ai>>

service_get_projects_data(category, featured, limit) ==
    /\ ncalls < MaxCalls
    /\ ncalls' = ncalls + 1
    /\ LET call == ProjectsCall(category, featured, limit)
       IN /\ qdata' = call.doc
          /\ qret' = call.ret
          /\ cache' = call.cache
    /\ qcall' = [op |-> "get_projects_data", category |-> category,
                 featured |-> featured, limit |-> limit]
    /\ okVal' = load_okVal("projects.json")
    /\ UNCHANGED stat
    /\ ServiceLeaves

\* A call that loads `file` and leaves the list it loaded as it is.
service_load(file) ==
    /\ ncalls < MaxCalls
    /\ ncalls' = ncalls + 1
    /\ qdata' = load_value(file)
    /\ cache' = load_cache(file)
    /\ okVal' = load_okVal(file)
    /\ UNCHANGED stat
    /\ ServiceLeaves

\* get_project_by_id, lines 87-98: the scan reads the list.
service_get_project_by_id(project_id) ==
    /\ service_load("projects.json")
    /\ qcall' = [op |-> "get_project_by_id", project_id |-> project_id]
    /\ qret' = get_project_by_id_outcome(qdata', project_id)

\* get_experience_data, lines 100-103.
service_get_experience_data ==
    /\ service_load("jobs.json")
    /\ qcall' = [op |-> "get_experience_data"]
    /\ qret' = get_experience_data_outcome(qdata')

\* get_certificates_data, lines 105-108.
service_get_certificates_data ==
    /\ service_load("certificates.json")
    /\ qcall' = [op |-> "get_certificates_data"]
    /\ qret' = get_experience_data_outcome(qdata')

\* len(x) if x else 0 (lines 129-131), x a list or None.
CountOf(x) == IF Truthy(x) THEN Len(x.items) ELSE 0

StatsLeaves == UNCHANGED query /\ ServiceLeaves

\* Lines 117-119: the call, and list(self._cache.keys()).
get_data_stats_keys ==
    /\ stats_pc \in {"idle", "done"}
    /\ ncalls < MaxCalls
    /\ ncalls' = ncalls + 1
    /\ stats' = [cached_files |-> CachedFiles]
    /\ stats_start' = CachedFiles
    /\ stats_pc' = "L120"
    /\ UNCHANGED <<cache, okVal>>
    /\ StatsLeaves

\* Line 120: len(self._cache).
get_data_stats_len ==
    /\ stats_pc = "L120"
    /\ stats' = [cached_files |-> stats.cached_files,
                 cache_size |-> Cardinality(CachedFiles)]
    /\ stats_pc' = "L124"
    /\ UNCHANGED <<cache, okVal, ncalls, stats_start>>
    /\ StatsLeaves

\* Line 124: projects = self.get_projects_data().
get_data_stats_projects ==
    /\ stats_pc = "L124"
    /\ LET call == ProjectsCall(PyNone, PyNone, NoArg)
       IN /\ stats' = [cached_files |-> stats.cached_files,
                       cache_size |-> stats.cache_size,
                       projects |-> call.ret.result]
          /\ cache' = call.cache
    /\ okVal' = load_okVal("projects.json")
    /\ stats_pc' = "L125"
    /\ UNCHANGED <<ncalls, stats_start>>
    /\ StatsLeaves

\* Line 125: experience = self.get_experience_data().
get_data_stats_experience ==
    /\ stats_pc = "L125"
    /\ stats' = [cached_files |-> stats.cached_files,
                 cache_size |-> stats.cache_size,
                 projects |-> stats.projects,
                 experience |->
                    get_experience_data_outcome(load_value("jobs.json")).result]
    /\ cache' = load_cache("jobs.json")
    /\ okVal' = load_okVal("jobs.json")
    /\ stats_pc' = "L126"
    /\ UNCHANGED <<ncalls, stats_start>>
    /\ StatsLeaves

\* Line 126: certificates = self.get_certificates_data().
get_data_stats_certificates ==
    /\ stats_pc = "L126"
    /\ stats' = [cached_files |-> stats.cached_files,
                 cache_size |-> stats.cache_size,
                 projects |-> stats.projects,
                 experience |-> stats.experience,
                 certificates |->
                    get_experience_data_outcome(
                        load_value("certificates.json")).result]
    /\ cache' = load_cache("certificates.json")
    /\ okVal' = load_okVal("certificates.json")
    /\ stats_pc' = "L128"
    /\ UNCHANGED <<ncalls, stats_start>>
    /\ StatsLeaves

\* Lines 128-134: stats.update({...}); return stats.
get_data_stats_return ==
    /\ stats_pc = "L128"
    /\ stats' = [cached_files |-> stats.cached_files,
                 cache_size |-> stats.cache_size,
                 projects_count |-> CountOf(stats.projects),
                 experience_count |-> CountOf(stats.experience),
                 certificates_count |-> CountOf(stats.certificates)]
    /\ stats_pc' = "done"
    /\ UNCHANGED <<cache, okVal, ncalls, stats_start>>
    /\ StatsLeaves

\* A service constructed over a data directory of the three files, and the
\* query operations called on it in any order, the cache cleared and
\* projects.json replaced between them.
InitDataService ==
    /\ InitServiceOver(DataFiles)
    /\ DefaultSettings
    /\ NoQuery
    /\ NoRequest
    /\ NoAI
    /\ fs \in [DataFiles -> {MissingFile, FileWith(TwoRecordsText)}]

NextDataService ==
    \/ \E c \in {PyNone, PyStr("ai")}, f \in {PyNone, PyBool(TRUE)},
          l \in {NoArg, PyInt(1)} : service_get_projects_data(c, f, l)
    \/ \E id \in {PyStr("p1"), PyStr("zz")} : service_get_project_by_id(id)
    \/ service_get_experience_data
    \/ service_get_certificates_data
    \/ clear_cache
    \/ \E s \in ServiceFileStates : FsChange("projects.json", s)

SpecDataService == InitDataService /\ [][NextDataService]_vars

\* The same service with get_data_stats called on it, while other threads
\* call the fetches of jobs.json and certificates.json and clear the cache.
StatsFileStates(f) ==
    IF f = "projects.json" THEN ServiceFileStates
    ELSE ServiceFileStates \ {FileWith(LongArrayText)}

InitStats ==
    /\ InitServiceOver(DataFiles)
    /\ DefaultSettings
    /\ NoQuery
    /\ NoRequest
    /\ NoAI
    /\ fs \in [DataFiles -> ServiceFileStates]
    /\ \A f \in DataFiles : fs[f] \in StatsFileStates(f)

NextStats ==
    \/ get_data_stats_keys
    \/ get_data_stats_len
    \/ get_data_stats_projects
    \/ get_data_stats_experience
    \/ get_data_stats_certificates
    \/ get_data_stats_return
    \/ service_get_experience_data
    \/ service_get_certificates_data
    \/ clear_cache

SpecStats == InitStats /\ [][NextStats]_vars



\* C25: through any sequence of get_projects_data and get_project_by_id
\* calls, with any criteria, the array cached under projects.json is the
\* array that was loaded, the same records in the same order; and the list
\* get_projects_data returns is one the call built, never the cached one.
C25_QueriesLeaveCachedDocument ==
    /\ IsCached("projects.json") =>
          cache["projects.json"] = okVal["projects.json"]
    /\ (qcall.op = "get_projects_data" /\ IsList(qret.result)) =>
          qret.object = "new"

\* C25, witness: after an earlier call, get_projects_data with no criteria
\* and limit 1 has returned the first of the two cached records, and the
\* cache still holds both.
C25_Witness ==
    /\ ncalls >= 2
    /\ qcall.op = "get_projects_data"
    /\ qcall.category = PyNone /\ qcall.featured = PyNone
    /\ qcall.limit = PyInt(1)
    /\ qdata = PyList(<<RecAI, RecAiLower>>)
    /\ qret.result = PyList(<<RecAI>>)
    /\ cache["projects.json"] = PyList(<<RecAI, RecAiLower>>)

\* The number of records in a data file: the length of the array it holds,
\* and 0 when it is missing or holds no array.
RecordsIn(f) ==
    IF LoadsOk(fs[f]) /\ IsList(json_load(fs[f].text))
    THEN Len(json_load(fs[f].text).items)
    ELSE 0

\* C27 (as stated): the three counts get_data_stats returns are the numbers
\* of records in projects.json, jobs.json and certificates.json, whatever
\* their length, and 0 for a file that is missing or holds no array.
C27_CountsAreExact ==
    stats_pc = "done" =>
        /\ stats.projects_count = RecordsIn("projects.json")
        /\ stats.experience_count = RecordsIn("jobs.json")
        /\ stats.certificates_count = RecordsIn("certificates.json")

StatsReturnStep == stats_pc = "L128" /\ stats_pc' = "done"

\* C28 (as stated): in every result of get_data_stats cache_size is the
\* number of names in cached_files, and cached_files is the set of files
\* cached when the call began; a file the call itself loaded is in the
\* cache when the call returns, though not in its cached_files.
C28_CacheFiguresDescribeCallStart ==
    /\ [](stats_pc = "done" =>
            /\ stats.cache_size = Cardinality(stats.cached_files)
            /\ stats.cached_files = stats_start)
    /\ [][StatsReturnStep =>
            \A f \in DataFiles \ stats.cached_files :
                LoadsOk(fs[f]) => IsCached(f)]_vars


====
